---- MODULE Spec2Model ----
(***************************************************************************)
(* fastquant/strategies.py: BaseStrategy (order sizing and the pending-    *)
(* order handle), its RSI and SMAC signal variants, driven bar by bar by   *)
(* the backtrader engine (feed, broker, notifications).                    *)
(*                                                                         *)
(* Money is an integer number of currency units.  Rates (commission, the   *)
(* 0.001 allowance) are integers over RATE_DEN, proportions (buy_prop,     *)
(* sell_prop) are integers over PROP_DEN; int(x) of the code is PyInt(n, d)  *)
(* on the exact quotient n/d (float rounding is not modelled).             *)
(***************************************************************************)
EXTENDS Integers, Sequences, FiniteSets, TLC

\* ------------------------------------------------------------------ bounds
MaxBars == 4

\* --------------------------------------------------- module-level globals
RATE_DEN == 2000
PROP_DEN == 2
\* COMMISSION_PER_TRANSACTION = 0.0075 = 15 / RATE_DEN
COMMISSION_PER_TRANSACTION == 15
\* the literal 0.001 of the afforded-size formula = 2 / RATE_DEN
MARGIN_ALLOWANCE == 2
\* INIT_CASH = 100000
INIT_CASH == 100000
\* BUY_PROP = 1, SELL_PROP = 1 (as proportions over PROP_DEN)
BUY_PROP == PROP_DEN
SELL_PROP == PROP_DEN
\* RSIStrategy.params defaults of rsi_lower and rsi_upper
DefaultRsiBounds == [lower |-> 30, upper |-> 70]

\* -------------------------------------------------- input sets of the runs
\* bars of the feed; next() reads close[0], open[1] and close[1] only
Prices == {50, 100}
Bars == {[open |-> p, close |-> p] : p \in Prices}
CashValues == {100, INIT_CASH}
Props == {1, PROP_DEN}
Commissions == {COMMISSION_PER_TRANSACTION, 40}
RsiValues == {25, 50, 75}
\* rsi_lower and rsi_upper a caller can pass: the defaults, equal bounds, and
\* bounds the wrong way round
RsiBounds == {DefaultRsiBounds, [lower |-> 50, upper |-> 50],
              [lower |-> 70, upper |-> 30]}
CrossValues == {-1, 0, 1}
\* keys of STRATEGY_MAPPING
StrategyKeys == {"rsi", "smac", "base"}
\* strategy arguments a caller can pass: the keys and one that is no key
AnyKeys == StrategyKeys \cup {"unknown"}
\* proportions a caller can pass: 0, 0.5, 1 and 1.5
AnyProps == {0, 1, PROP_DEN, 3}
NoOrder == 0

VARIABLES
  strategy,        \* key of STRATEGY_MAPPING
  init_cash, buy_prop, sell_prop, execution_type,   \* BaseStrategy.params
  commission,      \* backtest(commission=...), handed to the broker
  nbars,           \* number of bars of the feed
  len_data,        \* self.len_data
  bar,             \* len(self): number of bars delivered so far
  dataopen0, dataclose0, dataopen1, dataclose1,     \* self.dataopen[0..1], self.dataclose[0..1]
  rsi_lower, rsi_upper,   \* RSIStrategy.params (the defaults for the other strategies)
  rsi, crossover,  \* self.rsi[0], self.crossover
  cash, value,     \* self.cash, self.value
  order,           \* self.order (NoOrder is None, else the order's ref)
  buyprice, buycomm,
  bcash, position, \* broker cash, self.position.size
  live,            \* orders the broker holds that have not reached a terminal status
  bar_executed,    \* self.bar_executed (0 before the first completion)
  calls,           \* the buy()/sell() calls made by the latest next()
  pc               \* place in the engine's per-bar cycle

vars == <<strategy, init_cash, buy_prop, sell_prop, execution_type, commission,
          rsi_lower, rsi_upper, nbars, len_data, bar, dataopen0, dataclose0, dataopen1, dataclose1,
          rsi, crossover, cash, value, order, buyprice, buycomm, bcash,
          position, live, bar_executed, calls, pc>>

config == <<strategy, init_cash, buy_prop, sell_prop, execution_type,
            commission, rsi_lower, rsi_upper, nbars, len_data>>
feed == <<bar, dataopen0, dataclose0, dataopen1, dataclose1, rsi, crossover>>
ledger == <<cash, value>>
basis == <<buyprice, buycomm>>
broker == <<bcash, position, live>>

\* ----------------------------------------------------------------- helpers
Min(a, b) == IF a <= b THEN a ELSE b

\* int(n / d) of Python: truncation toward zero (d > 0)
PyInt(n, d) == IF n >= 0 THEN n \div d ELSE -((-n) \div d)

\* ceiling of n / d for n >= 0
CeilDiv(n, d) == (n + d - 1) \div d

\* ------------------------------------------------------- signal providers
buy_signal ==
  CASE strategy = "base" -> TRUE
    [] strategy = "rsi"  -> rsi < rsi_lower
    [] strategy = "smac" -> crossover > 0

\* the RSI sell test with the comparison turned round
sell_signal_m ==
  CASE strategy = "base" -> TRUE
    [] strategy = "rsi"  -> rsi < rsi_upper
    [] strategy = "smac" -> crossover < 0

sell_signal ==
  CASE strategy = "base" -> TRUE
    [] strategy = "rsi"  -> rsi > rsi_upper
    [] strategy = "smac" -> crossover < 0

IndicatorValues(s) ==
  CASE s = "base" -> {<<50, 0>>}
    [] s = "rsi"  -> {<<r, 0>> : r \in RsiValues}
    [] s = "smac" -> {<<50, c>> : c \in CrossValues}

\* ------------------------------------------------------------------ sizing
\* int(self.cash / (price * (1 + COMMISSION_PER_TRANSACTION + 0.001)))
AffordedSize(c, p) ==
  PyInt(c * RATE_DEN, p * (RATE_DEN + COMMISSION_PER_TRANSACTION + MARGIN_ALLOWANCE))

\* int(afforded_size * self.buy_prop)
BuyPropSize(a) == PyInt(a * buy_prop, PROP_DEN)

\* final_size of the buy branch
FinalSize ==
  LET afforded_size == AffordedSize(cash, dataclose0)
      buy_prop_size == BuyPropSize(afforded_size)
  IN  IF execution_type = "close"
      THEN Min(buy_prop_size, afforded_size)
      ELSE Min(buy_prop_size, AffordedSize(cash, dataopen1))

\* the held value taken to be the whole portfolio value
StockValue_m == value

\* stock_value = self.value - self.cash
StockValue == value - cash

\* size of the sell branch
SellSize ==
  IF execution_type = "close"
  THEN IF SELL_PROP = PROP_DEN
       THEN position
       ELSE PyInt(StockValue * sell_prop, dataclose1 * PROP_DEN)
  ELSE PyInt(init_cash * sell_prop, dataopen1 * PROP_DEN)

SellExecType == IF execution_type = "close" THEN "Close" ELSE "Market"

\* ---------------------------------------------------- guards of next()
\* the pending-order test left out
OrderPending_m == FALSE

\* if self.order: return
OrderPending == order # NoOrder

\* the guard comparing len(self) itself with len_data
LastBar_m == bar >= len_data

\* if len(self) + 1 >= self.len_data: return
LastBar == bar + 1 >= len_data

BuyBranch == cash >= dataclose0 /\ buy_signal

SellBranch == StockValue > 0 /\ sell_signal

\* ------------------------------------------------ bt.Strategy.buy / sell
\* The facade hands the request to the broker, which creates an order and
\* returns it; a falsy size (0) creates no order and returns None.
Created(sz) == sz # 0

\* ref of the order created by the buy (sell) call of the current bar
Ref(isbuy) == IF isbuy THEN 2 * bar - 1 ELSE 2 * bar

NewOrder(ref, isbuy, sz, exectype) ==
  [ref |-> ref, isbuy |-> isbuy, size |-> sz, exectype |-> exectype,
   status |-> "Created"]

Call(isbuy, sz) == [isbuy |-> isbuy, size |-> sz]

\* -------------------------------------------------------------------- Init
\* The state when the engine calls next() for the first time.
\* self.len_data = len(list(self.datas[0])): the comment at the assignment
\* calls it the number of ticks (nbars); iterating the preloaded feed through
\* its index protocol also yields the slot before the first bar (nbars + 1).
\* Both values are kept.
Init ==
  /\ strategy \in {"base", "rsi", "smac"}
  /\ init_cash \in CashValues
  /\ buy_prop \in Props
  /\ sell_prop \in Props
  /\ execution_type \in {"close", "open"}
  /\ commission \in Commissions
  /\ \E b \in (IF strategy = "rsi" THEN RsiBounds ELSE {DefaultRsiBounds}) :
       rsi_lower = b.lower /\ rsi_upper = b.upper
  /\ nbars \in 1..MaxBars
  /\ len_data \in {nbars, nbars + 1}
  /\ bar = 1
  /\ dataopen0 = 100 /\ dataclose0 = 100
  /\ \E b \in Bars : dataopen1 = b.open /\ dataclose1 = b.close
  /\ \E iv \in IndicatorValues(strategy) : rsi = iv[1] /\ crossover = iv[2]
  /\ cash = init_cash /\ value = init_cash
  /\ order = NoOrder
  /\ buyprice = 0 /\ buycomm = 0
  /\ bcash = init_cash /\ position = 0
  /\ live = <<>>
  /\ bar_executed = 0
  /\ calls = <<>>
  /\ pc = "cashvalue"

\* ------------------------------------------------------- notify_cashvalue
notify_cashvalue(c, v) ==
  /\ cash' = c
  /\ value' = v

\* The engine reports the broker's cash and portfolio value once per bar,
\* after the bar's order notifications and before next().
NotifyCashValue ==
  /\ pc = "cashvalue"
  /\ notify_cashvalue(bcash, bcash + position * dataclose0)
  /\ pc' = "next"
  /\ UNCHANGED <<config, feed, order, basis, broker, bar_executed, calls>>

\* ------------------------------------------------------------------- next
next ==
  IF OrderPending \/ LastBar
  THEN /\ calls' = <<>>
       /\ UNCHANGED <<order, live>>
  ELSE LET buy     == BuyBranch
           bsz     == FinalSize
           sell    == SellBranch
           ssz     == SellSize
           bmade   == buy /\ Created(bsz)
           smade   == sell /\ Created(ssz)
           border  == IF bmade
                      THEN <<NewOrder(Ref(TRUE), TRUE, bsz, "Market")>> ELSE <<>>
           sorder  == IF smade
                      THEN <<NewOrder(Ref(FALSE), FALSE, ssz, SellExecType)>> ELSE <<>>
       IN  /\ calls' = (IF buy THEN <<Call(TRUE, bsz)>> ELSE <<>>)
                       \o (IF sell THEN <<Call(FALSE, ssz)>> ELSE <<>>)
           /\ live' = live \o border \o sorder
           /\ order' = IF sell THEN (IF smade THEN Ref(FALSE) ELSE NoOrder)
                       ELSE IF buy THEN (IF bmade THEN Ref(TRUE) ELSE NoOrder)
                       ELSE order

StrategyNext ==
  /\ pc = "next"
  /\ next
  /\ pc' = "feed"
  /\ UNCHANGED <<config, feed, ledger, basis, bcash, position, bar_executed>>

\* ----------------------------------------------------------- notify_order
\* `self.order = None` done for a Completed order only
notify_order_completed_only(o, status, price, comm) ==
  IF status = "Completed"
  THEN /\ IF o.isbuy
          THEN buyprice' = price /\ buycomm' = comm
          ELSE UNCHANGED basis
       /\ bar_executed' = bar
       /\ order' = NoOrder
  ELSE UNCHANGED <<order, basis, bar_executed>>

\* the executed price and commission recorded for every terminal status
notify_order_any_status(o, status, price, comm) ==
  IF status \in {"Submitted", "Accepted"}
  THEN UNCHANGED <<order, basis, bar_executed>>
  ELSE /\ IF o.isbuy
          THEN buyprice' = price /\ buycomm' = comm
          ELSE UNCHANGED basis
       /\ bar_executed' = IF status = "Completed" THEN bar ELSE bar_executed
       /\ order' = NoOrder

\* the executed price and commission recorded for sells as for buys
notify_order_any_side(o, status, price, comm) ==
  IF status \in {"Submitted", "Accepted"}
  THEN UNCHANGED <<order, basis, bar_executed>>
  ELSE /\ IF status = "Completed"
          THEN /\ buyprice' = price /\ buycomm' = comm
               /\ bar_executed' = bar
          ELSE UNCHANGED <<basis, bar_executed>>
       /\ order' = NoOrder

\* `self.order = None` done for a Canceled, Margin or Rejected order only
notify_order_refused_only(o, status, price, comm) ==
  IF status \in {"Submitted", "Accepted"}
  THEN UNCHANGED <<order, basis, bar_executed>>
  ELSE IF status = "Completed"
       THEN /\ IF o.isbuy
               THEN buyprice' = price /\ buycomm' = comm
               ELSE UNCHANGED basis
            /\ bar_executed' = bar
            /\ UNCHANGED order
       ELSE /\ UNCHANGED <<basis, bar_executed>>
            /\ order' = NoOrder

notify_order(o, status, price, comm) ==
  IF status \in {"Submitted", "Accepted"}
  THEN UNCHANGED <<order, basis, bar_executed>>
  ELSE /\ IF status = "Completed"
          THEN /\ IF o.isbuy
                  THEN buyprice' = price /\ buycomm' = comm
                  ELSE UNCHANGED basis
               /\ bar_executed' = bar
          ELSE UNCHANGED <<basis, bar_executed>>
       /\ order' = NoOrder

\* ------------------------------------------------------------- the broker
\* On the bar after the calls the broker submits and accepts each order, in
\* the order of the calls; an accepted order then executes in full, is refused
\* (Margin when the cash does not cover it, Canceled, Rejected), or stays
\* pending for a later bar.  A sell may exceed the position held: the broker
\* opens a short position.
Remove(s, i) == SubSeq(s, 1, i - 1) \o SubSeq(s, i + 1, Len(s))

ExecPrice(o) == IF o.exectype = "Close" THEN dataclose0 ELSE dataopen0

Commission(o) == CeilDiv(o.size * ExecPrice(o) * commission, RATE_DEN)

\* cash after the order executes in full
CashAfter(o) ==
  IF o.isbuy
  THEN bcash - o.size * ExecPrice(o) - Commission(o)
  ELSE bcash + o.size * ExecPrice(o) - Commission(o)

\* Submitted and Accepted notifications of a live order
BrokerProgress(i) ==
  /\ pc = "broker"
  /\ live[i].status \in {"Created", "Submitted"}
  /\ LET status == IF live[i].status = "Created" THEN "Submitted" ELSE "Accepted"
     IN  /\ notify_order(live[i], status, 0, 0)
         /\ live' = [live EXCEPT ![i].status = status]
  /\ UNCHANGED <<config, feed, ledger, bcash, position, calls, pc>>

\* the order executes in full
BrokerComplete(i) ==
  /\ pc = "broker"
  /\ live[i].status = "Accepted"
  /\ CashAfter(live[i]) >= 0
  /\ notify_order(live[i], "Completed", ExecPrice(live[i]), Commission(live[i]))
  /\ bcash' = CashAfter(live[i])
  /\ position' = IF live[i].isbuy THEN position + live[i].size
                 ELSE position - live[i].size
  /\ live' = Remove(live, i)
  /\ UNCHANGED <<config, feed, ledger, calls, pc>>

\* the order ends without executing
BrokerRefuse(i, status) ==
  /\ pc = "broker"
  /\ live[i].status = "Accepted"
  /\ status = "Margin" => CashAfter(live[i]) < 0
  /\ notify_order(live[i], status, 0, 0)
  /\ live' = Remove(live, i)
  /\ UNCHANGED <<config, feed, ledger, bcash, position, calls, pc>>

\* the broker is done with this bar: every order it holds has been submitted
\* and accepted; the ones that have not executed stay pending
BrokerDone ==
  /\ pc = "broker"
  /\ \A i \in 1..Len(live) : live[i].status = "Accepted"
  /\ pc' = "cashvalue"
  /\ UNCHANGED <<config, feed, ledger, order, basis, broker, bar_executed, calls>>

\* --------------------------------------------------------------- the feed
Advance ==
  /\ pc = "feed"
  /\ bar < nbars
  /\ bar' = bar + 1
  /\ dataopen0' = dataopen1
  /\ dataclose0' = dataclose1
  /\ IF bar + 1 < nbars
     THEN \E b \in Bars : dataopen1' = b.open /\ dataclose1' = b.close
     ELSE UNCHANGED <<dataopen1, dataclose1>>
  /\ \E iv \in IndicatorValues(strategy) : rsi' = iv[1] /\ crossover' = iv[2]
  /\ pc' = "broker"
  /\ UNCHANGED <<config, ledger, order, basis, broker, bar_executed, calls>>

Finish ==
  /\ pc = "feed"
  /\ bar = nbars
  /\ pc' = "done"
  /\ UNCHANGED <<config, feed, ledger, order, basis, broker, bar_executed, calls>>

\* the broker works on its orders in the order they were submitted
Unaccepted == {i \in 1..Len(live) : live[i].status # "Accepted"}

Turn ==
  IF Unaccepted # {} THEN {CHOOSE i \in Unaccepted : \A j \in Unaccepted : i <= j}
  ELSE IF live = <<>> THEN {} ELSE {1}

Next ==
  \/ NotifyCashValue
  \/ StrategyNext
  \/ \E i \in Turn : BrokerProgress(i)
  \/ \E i \in Turn : BrokerComplete(i)
  \/ \E i \in Turn : \E s \in {"Canceled", "Margin", "Rejected"} : BrokerRefuse(i, s)
  \/ BrokerDone
  \/ Advance
  \/ Finish

Spec == Init /\ [][Next]_vars

\* --------------------------------------------------------------- backtest
\* any key is taken to be a key of the mapping
KnownKey_m(k) == TRUE

\* STRATEGY_MAPPING[strategy] raises KeyError for a key that is not mapped
KnownKey(k) == k \in StrategyKeys

\* The call of backtest with the default commission, init_cash and RSI bounds, before
\* it has done anything: nothing is constructed, no bar is delivered.
InitRun ==
  /\ strategy \in AnyKeys
  /\ init_cash = INIT_CASH
  /\ buy_prop \in AnyProps
  /\ sell_prop \in AnyProps
  /\ execution_type \in {"close", "open"}
  /\ commission = COMMISSION_PER_TRANSACTION
  /\ rsi_lower = DefaultRsiBounds.lower /\ rsi_upper = DefaultRsiBounds.upper
  /\ nbars \in 1..MaxBars
  /\ len_data = 0
  /\ bar = 0
  /\ dataopen0 = 100 /\ dataclose0 = 100
  /\ \E b \in Bars : dataopen1 = b.open /\ dataclose1 = b.close
  /\ rsi = 50 /\ crossover = 0
  /\ cash = 0 /\ value = 0
  /\ order = NoOrder
  /\ buyprice = 0 /\ buycomm = 0
  /\ bcash = 0 /\ position = 0
  /\ live = <<>>
  /\ bar_executed = 0
  /\ calls = <<>>
  /\ pc = "backtest"

\* backtest up to the first bar: the strategy class is looked up, then the
\* run constructs the strategy (__init__ takes the parameters as they are),
\* sets the broker's cash and delivers the first bar.
Backtest ==
  /\ pc = "backtest"
  /\ IF ~KnownKey(strategy)
     THEN /\ pc' = "error"
          /\ UNCHANGED <<len_data, bar, rsi, crossover, bcash>>
     ELSE /\ len_data' \in {nbars, nbars + 1}
          /\ bar' = 1
          /\ \E iv \in (IF strategy \in StrategyKeys THEN IndicatorValues(strategy)
                        ELSE {<<50, 0>>}) :
               rsi' = iv[1] /\ crossover' = iv[2]
          /\ bcash' = init_cash
          /\ pc' = "cashvalue"
  /\ UNCHANGED <<strategy, init_cash, buy_prop, sell_prop, execution_type,
                 commission, rsi_lower, rsi_upper, nbars, dataopen0, dataclose0, dataopen1, dataclose1,
                 ledger, order, basis, position, live, bar_executed, calls>>

NextRun == Backtest \/ Next

SpecRun == InitRun /\ [][NextRun]_vars

\* ------------------------------------------------- a broker that is prompt
\* The broker leaves no order pending: every order reaches a terminal status
\* on the bar after its submission.
BrokerDonePrompt ==
  /\ live = <<>>
  /\ BrokerDone

NextPrompt ==
  \/ NotifyCashValue
  \/ StrategyNext
  \/ \E i \in Turn : BrokerProgress(i)
  \/ \E i \in Turn : BrokerComplete(i)
  \/ \E i \in Turn : \E s \in {"Canceled", "Margin", "Rejected"} : BrokerRefuse(i, s)
  \/ BrokerDonePrompt
  \/ Advance
  \/ Finish

\* runs with the default commission and the default RSI bounds
InitPrompt ==
  /\ Init
  /\ commission = COMMISSION_PER_TRANSACTION
  /\ rsi_lower = DefaultRsiBounds.lower
  /\ rsi_upper = DefaultRsiBounds.upper

\* the engine's loop keeps running until the feed is exhausted
SpecPrompt == InitPrompt /\ [][NextPrompt]_vars /\ WF_vars(NextPrompt)

\* ================================================================ claims
\* the latest next() has returned for the current bar
AfterNext == pc \in {"feed", "done"}

BuyCalls == {i \in 1..Len(calls) : calls[i].isbuy}
SellCalls == {i \in 1..Len(calls) : ~calls[i].isbuy}

\* C1: at most one order is outstanding (submitted and not yet notified as
\* Completed, Canceled, Margin or Rejected) at any time.
C1_OneOrderOutstanding == Len(live) <= 1

\* C2: when next() is called with the pending-order handle set, it makes no
\* buy and no sell call, creates no order, and leaves the handle, the cost
\* basis, cash and value as they were.
C2_PendingBlocksNext ==
  [][(pc = "next" /\ order # NoOrder)
       => /\ calls' = <<>>
          /\ live' = live
          /\ order' = order
          /\ basis' = basis
          /\ ledger' = ledger]_vars

\* next() has run with the handle set on a bar where, the handle apart, it
\* would have bought
C2_Witness ==
  /\ pc = "feed"
  /\ order # NoOrder
  /\ ~LastBar
  /\ BuyBranch
  /\ FinalSize > 0
  /\ calls = <<>>

\* C3: one call of next() places at most one order: after the buy branch has
\* issued a buy order, the sell branch issues no sell order on the same bar.
C3_OneOrderPerBar ==
  AfterNext =>
    ~(\E i \in BuyCalls, j \in SellCalls : calls[i].size # 0 /\ calls[j].size # 0)

\* C4: next() makes no buy and no sell call on the final bar of the feed.
C4_NoOrderOnFinalBar == (AfterNext /\ bar = nbars) => calls = <<>>

\* next() has run on the final bar of a feed of several bars with no order
\* pending, enough cash and a true buy signal
C4_Witness ==
  /\ pc = "feed"
  /\ bar = nbars
  /\ nbars >= 2
  /\ order = NoOrder
  /\ BuyBranch
  /\ FinalSize > 0
  /\ calls = <<>>

\* C5: with the commission rate r configured for the run, the affordable size
\* n used for a buy satisfies n * P * (1 + r + 0.001) <= C and
\* (n + 1) * P * (1 + r + 0.001) > C.
C5_AffordableUnderConfiguredRate ==
  (pc = "feed" /\ BuyCalls # {} /\ execution_type = "close" /\ buy_prop = PROP_DEN)
    => LET n    == calls[1].size
           unit == dataclose0 * (RATE_DEN + commission + MARGIN_ALLOWANCE)
       IN  /\ n * unit <= cash * RATE_DEN
           /\ (n + 1) * unit > cash * RATE_DEN

C7_SellWithinPosition ==
  pc = "feed" => \A i \in SellCalls : calls[i].size <= position

\* C8: with sell_prop = 1, every submitted sell order has exactly the size
\* of the held position, in both execution timings.
C8_FullLiquidation ==
  (pc = "feed" /\ sell_prop = PROP_DEN) => \A i \in SellCalls : calls[i].size = position

\* C9: the position size is never negative.
C9_NoShortPosition == position >= 0

\* C10: when the held position size is 0, next() makes no sell call, whatever
\* the sell signal returns.
C10_NoSellWithoutPosition == (pc = "feed" /\ position = 0) => SellCalls = {}

\* next() has gone through both branches with nothing held and a true sell
\* signal: it bought and did not sell
C10_Witness ==
  /\ pc = "feed"
  /\ position = 0
  /\ sell_signal
  /\ BuyCalls # {}
  /\ SellCalls = {}

\* C11: backtest with a strategy key that is not one of base, rsi, smac ends
\* in an error before any bar is processed: no bar is delivered, next() is
\* not called, no order is submitted and the ledger is not updated.
C11_UnknownKeyFails ==
  strategy \notin {"base", "rsi", "smac"}
    => /\ pc \in {"backtest", "error"}
       /\ bar = 0
       /\ calls = <<>> /\ live = <<>> /\ order = NoOrder
       /\ ledger = <<0, 0>> /\ bcash = 0

\* backtest has failed on the unknown key
C11_Witness == strategy = "unknown" /\ pc = "error"

\* C12: a strategy with buy_prop or sell_prop outside (0, 1] is refused at
\* construction: no bar is processed and no order is submitted with it.
C12_InvalidProportionRefused ==
  (buy_prop \notin Props \/ sell_prop \notin Props)
    => /\ pc \in {"backtest", "error"}
       /\ bar = 0
       /\ calls = <<>> /\ live = <<>>

\* C13: the final-bar guard skips only the last bar: on every bar but the
\* last, with no order pending, cash >= close, a true buy signal and a
\* computed size > 0, next() submits a buy order.
C13_OnlyLastBarSkipped ==
  [][(pc = "next" /\ bar < nbars /\ order = NoOrder /\ BuyBranch /\ FinalSize > 0)
       => \E i \in 1..Len(calls') : calls'[i].isbuy]_vars

\* C14: notify_order with a terminal status sets the pending-order handle to
\* none; with Submitted or Accepted it leaves the handle and the rest of the
\* strategy's state unchanged.
C14_NotifyClearsHandle ==
  [][(pc = "broker" /\ live' # live)
       => IF Len(live') < Len(live)
          THEN order' = NoOrder
          ELSE /\ order' = order
               /\ basis' = basis
               /\ ledger' = ledger
               /\ bar_executed' = bar_executed]_vars

\* an order has been submitted, accepted and completed on this bar
C14_Witness ==
  /\ pc = "broker"
  /\ bar_executed = bar
  /\ order = NoOrder

\* C15: a Canceled, Margin or Rejected notification leaves cash, value, the
\* recorded buy price and the recorded buy commission as they were; only the
\* pending-order handle is cleared.
C15_RefusalKeepsLedger ==
  [][(pc = "broker" /\ Len(live') < Len(live) /\ position' = position)
       => /\ ledger' = ledger
          /\ basis' = basis
          /\ bar_executed' = bar_executed
          /\ order' = NoOrder]_vars

\* the order of the previous bar was refused: nothing has ever executed and
\* the broker holds no order
C15_Witness ==
  /\ pc = "broker"
  /\ \E i \in 1..Len(calls) : calls[i].size # 0
  /\ live = <<>>
  /\ bar_executed = 0
  /\ order = NoOrder

\* C16: the recorded buy price and commission change only when a buy order
\* completes, and then become its executed price and commission; a completed
\* sell, next() and notify_cashvalue leave them unchanged.
C16_BasisOnlyOnBuy ==
  [][((basis' # basis)
        => (/\ pc = "broker"
            /\ \E i \in Turn : /\ live[i].isbuy
                               /\ live[i].status = "Accepted"
                               /\ position' = position + live[i].size))
     /\ ((pc = "broker" /\ position' > position)
        => (\E i \in Turn :
              basis' = <<ExecPrice(live[i]), Commission(live[i])>>))]_vars

\* a buy has completed on an earlier bar and a sell of the whole position on
\* this one: the recorded buy price is still there
C16_Witness ==
  /\ pc = "broker"
  /\ buyprice # 0
  /\ position = 0
  /\ bar_executed = bar

\* C17: with sell_prop < 1 and close timing the sell size is
\* floor((held value / reference price) * sell_prop).
C17_PartialSell ==
  (pc = "feed" /\ execution_type = "close" /\ sell_prop < PROP_DEN)
    => \A i \in SellCalls :
         calls[i].size = PyInt(StockValue * sell_prop, dataclose1 * PROP_DEN)

\* C18: with open timing the buy size is min(floor(A * buy_prop), A) with
\* A = floor(cash / (next open * (1 + commission + 0.001))).
C18_OpenBuySize ==
  (pc = "feed" /\ execution_type = "open")
    => \A i \in BuyCalls :
         LET A == AffordedSize(cash, dataopen1)
         IN  calls[i].size = Min(PyInt(A * buy_prop, PROP_DEN), A)

C20_RsiOneOrder ==
  (strategy = "rsi" /\ rsi_lower <= rsi_upper)
    => /\ ~(buy_signal /\ sell_signal)
       /\ Len(calls) <= 1
       /\ Len(live) <= 1

\* an RSI strategy holding a position has made its sell call
C20_Witness ==
  /\ strategy = "rsi"
  /\ rsi_lower <= rsi_upper
  /\ pc = "feed"
  /\ position > 0
  /\ SellCalls # {}

====
